---- MODULE Spec2Model ----
(***************************************************************************)
(* The FML lexer (src/src/fml/parser.py, class Lexer) as a state machine.  *)
(*                                                                         *)
(* Characters are modelled by their code points, so chr() and int() are    *)
(* arithmetic.  The Lexer object is the record  self ; the field  exc      *)
(* holds the exception that is propagating out of the running __next__     *)
(* call (and, once the call is over, the exception it raised).  A          *)
(* statement that follows a raising statement is skipped: every helper     *)
(* below returns its argument unchanged when an exception is in flight.    *)
(*                                                                         *)
(* One __next__ call is a sequence of steps: the dispatch (lines 86-102),  *)
(* then one step per iteration of the builder's loop; the step that leaves *)
(* the builder also packages and returns the token (lines 104-105).  pc    *)
(* is the position of the running call, "idle" between calls.              *)
(*                                                                         *)
(* The consumer's side is kept in three more variables:  emitted , the     *)
(* tokens returned so far;  failed , whether a call has raised Exception;  *)
(* calls , how many times next has been called, not counting the calls     *)
(* made after end-of-sequence was signalled.                               *)
(***************************************************************************)
EXTENDS Integers, Sequences, FiniteSets, TLC

VARIABLES input, self, pc, emitted, failed, calls

vars == <<input, self, pc, emitted, failed, calls>>

----------------------------------------------------------------------------
(* Code points *)

None == -1            \* the end marker next(self._stream, None) yields

\* the code points of the characters the model uses
ord ==
    ("\t" :> 9) @@ ("\n" :> 10) @@ (" " :> 32) @@ ("\"" :> 34) @@
    ("0" :> 48) @@ ("1" :> 49) @@ ("2" :> 50) @@ ("7" :> 55) @@
    ("8" :> 56) @@ ("9" :> 57) @@ ("A" :> 65) @@ ("F" :> 70) @@
    ("\\" :> 92) @@ ("a" :> 97) @@ ("b" :> 98) @@ ("c" :> 99) @@
    ("d" :> 100) @@ ("f" :> 102) @@ ("g" :> 103) @@ ("l" :> 108) @@
    ("m" :> 109) @@ ("n" :> 110) @@ ("o" :> 111) @@ ("q" :> 113) @@
    ("r" :> 114) @@ ("t" :> 116) @@ ("v" :> 118) @@ ("x" :> 120) @@
    ("y" :> 121)

TAB == ord["\t"]
LF == ord["\n"]
SPACE == ord[" "]
QUOTE == ord["\""]
BACKSLASH == ord["\\"]
Char_0 == ord["0"]
Char_1 == ord["1"]
Char_2 == ord["2"]
Char_7 == ord["7"]
Char_8 == ord["8"]
Char_9 == ord["9"]
Char_A == ord["A"]
Char_F == ord["F"]
Char_a == ord["a"]
Char_b == ord["b"]
Char_c == ord["c"]
Char_d == ord["d"]
Char_f == ord["f"]
Char_g == ord["g"]
Char_l == ord["l"]
Char_m == ord["m"]
Char_n == ord["n"]
Char_o == ord["o"]
Char_q == ord["q"]
Char_r == ord["r"]
Char_t == ord["t"]
Char_v == ord["v"]
Char_x == ord["x"]
Char_y == ord["y"]

----------------------------------------------------------------------------
(* Bounds and inputs *)

MaxLen == 4
MaxEscape == 2

Words(A, n) == UNION {[1..k -> A] : k \in 0..n}

Alphabet == {LF, TAB, SPACE, QUOTE, BACKSLASH, Char_a, Char_q, Char_1}

\* the characters tried after a backslash, and after those
EscapeChars == {BACKSLASH, QUOTE, Char_a, Char_b, Char_f, Char_n, Char_r,
                Char_t, Char_v, Char_o, Char_x, Char_q, Char_1}

DigitAlphabet == {Char_0, Char_1, Char_7, Char_8, Char_a, Char_F, Char_g, QUOTE}

\* a quoted literal that opens with an escape, closed or not
EscapeInputs ==
    {<<QUOTE, BACKSLASH, e>> \o w \o t :
        e \in EscapeChars, w \in Words(DigitAlphabet, MaxEscape),
        t \in {<<>>, <<QUOTE>>}}

Doc_ayy == <<Char_a, Char_y, Char_y, LF, SPACE,
             QUOTE, Char_l, Char_m, Char_a, Char_o, QUOTE>>
Doc_escapes == <<QUOTE, BACKSLASH, QUOTE, QUOTE, SPACE,
                 QUOTE, BACKSLASH, BACKSLASH, QUOTE, SPACE,
                 QUOTE, BACKSLASH, Char_x, Char_2, Char_0, QUOTE>>
Doc_o101 == <<QUOTE, BACKSLASH, Char_o, Char_1, Char_0, Char_1, QUOTE>>
Doc_abc == <<QUOTE, Char_a, Char_b, Char_c>>
Doc_bare == <<Char_a, Char_b, QUOTE, Char_c, Char_d>>

DocInputs == {Doc_ayy, Doc_escapes, Doc_o101, Doc_abc, Doc_bare, <<>>, <<SPACE>>}

Inputs == Words(Alphabet, MaxLen) \cup EscapeInputs \cup DocInputs

----------------------------------------------------------------------------
(* Exceptions *)

NoExc == [type |-> "None", msg |-> "", arg |-> <<>>]
StopIteration == [type |-> "StopIteration", msg |-> "", arg |-> <<>>]
AssertionError == [type |-> "AssertionError", msg |-> "", arg |-> <<>>]
Exception(msg, arg) == [type |-> "Exception", msg |-> msg, arg |-> arg]

Raising(L) == L.exc # NoExc

assert(L, cond) ==
    IF Raising(L) THEN L
    ELSE IF cond THEN L ELSE [L EXCEPT !.exc = AssertionError]

----------------------------------------------------------------------------
(* Token and the Lexer's helpers *)

Token(kind, value, chars) == [kind |-> kind, value |-> value, chars |-> chars]

NoToken == Token("None", <<>>, <<>>)

\* next(self._stream, None)
stream_next(s) == IF s = <<>> THEN None ELSE Head(s)

stream_rest(s) == IF s = <<>> THEN s ELSE Tail(s)

Lexer(stream) ==
    [stream |-> stream_rest(stream), next |-> stream_next(stream),
     position |-> 1, line |-> 1, column |-> 0,
     prev |-> NoToken, kind |-> "None", value |-> <<>>, chars |-> <<>>,
     exc |-> NoExc]

token(L) == Token(L.kind, L.value, L.chars)

\* mutant: the column is not reset at a line feed
take_no_column_reset(L) ==
    IF Raising(L) THEN L
    ELSE IF L.next = None THEN [L EXCEPT !.exc = StopIteration]
    ELSE [L EXCEPT !.chars = Append(@, L.next),
                   !.next = stream_next(L.stream),
                   !.stream = stream_rest(@),
                   !.position = @ + 1,
                   !.line = IF L.next = LF THEN @ + 1 ELSE @,
                   !.column = @ + 1]

\* take returns the character that was pending, L.next
take(L) ==
    IF Raising(L) THEN L
    ELSE IF L.next = None THEN [L EXCEPT !.exc = StopIteration]
    ELSE [L EXCEPT !.chars = Append(@, L.next),
                   !.next = stream_next(L.stream),
                   !.stream = stream_rest(@),
                   !.position = @ + 1,
                   !.line = IF L.next = LF THEN @ + 1 ELSE @,
                   !.column = IF L.next = LF THEN 0 ELSE @ + 1]

discard(L) == take(L)

accept(L) ==
    LET T == take(L)
    IN  IF Raising(T) THEN T ELSE [T EXCEPT !.value = Append(@, L.next)]

reject(L, msg, arg) ==
    IF Raising(L) THEN L ELSE [L EXCEPT !.exc = Exception(msg, arg)]

insert(L, char) ==
    IF Raising(L) THEN L ELSE [L EXCEPT !.value = Append(@, char)]

----------------------------------------------------------------------------
(* Escape decoding *)

\* mutant: the codes of n and r exchanged
simple_escapes_swapped ==
    (BACKSLASH :> BACKSLASH) @@ (QUOTE :> QUOTE) @@ (Char_a :> 7) @@
    (Char_b :> 8) @@ (Char_f :> 12) @@ (Char_n :> 13) @@ (Char_r :> 10) @@
    (Char_t :> 9) @@ (Char_v :> 11)

simple_escapes ==
    (BACKSLASH :> BACKSLASH) @@ (QUOTE :> QUOTE) @@ (Char_a :> 7) @@
    (Char_b :> 8) @@ (Char_f :> 12) @@ (Char_n :> 10) @@ (Char_r :> 13) @@
    (Char_t :> 9) @@ (Char_v :> 11)

\* mutant: the decimal digits taken for octal ones
valid_digits_octal_decimal ==
    (2 :> {Char_0, Char_1}) @@
    (8 :> Char_0..Char_9) @@
    (10 :> Char_0..Char_9) @@
    (16 :> (Char_0..Char_9) \cup (Char_a..Char_f) \cup (Char_A..Char_F))

valid_digits ==
    (2 :> {Char_0, Char_1}) @@
    (8 :> Char_0..Char_7) @@
    (10 :> Char_0..Char_9) @@
    (16 :> (Char_0..Char_9) \cup (Char_a..Char_f) \cup (Char_A..Char_F))

\* the value int() gives one digit character
digit_value(c) ==
    IF c \in Char_0..Char_9 THEN c - Char_0
    ELSE IF c \in Char_a..Char_f THEN c - Char_a + 10
    ELSE c - Char_A + 10

\* mutant: int(number) without base=base
RECURSIVE int_decimal(_, _)
int_decimal(number, base) ==
    IF number = <<>> THEN 0
    ELSE int_decimal(SubSeq(number, 1, Len(number) - 1), base) * 10
         + digit_value(number[Len(number)])

RECURSIVE int(_, _)
int(number, base) ==
    IF number = <<>> THEN 0
    ELSE int(SubSeq(number, 1, Len(number) - 1), base) * base
         + digit_value(number[Len(number)])

\* characters are code points
chr(i) == i

RECURSIVE number_loop(_, _, _, _)
number_loop(L, base, digits, chars) ==
    IF digits = 0 THEN insert(L, chr(int(chars, base)))
    ELSE LET T == take(L)
             char == L.next
         IN  IF Raising(T) THEN T
             ELSE IF char \notin valid_digits[base]
                  THEN reject(T, "is not a valid digit of base", <<char, base>>)
                  ELSE number_loop(T, base, digits - 1, Append(chars, char))

number(L, base, digits) ==
    IF Raising(L) THEN L ELSE number_loop(L, base, digits, <<>>)

\* mutant: an octal escape of three digits, as in C
quoted_escaped_octal3(L) ==
    LET A == assert(L, L.next = BACKSLASH)
        D == discard(A)
        T == take(D)
        char == D.next
    IN  IF Raising(T) THEN T
        ELSE IF char \in DOMAIN simple_escapes
             THEN insert(T, simple_escapes[char])
        ELSE IF char = Char_o THEN number(T, 8, 3)
        ELSE IF char = Char_x THEN number(T, 16, 2)
        ELSE accept(T)

quoted_escaped(L) ==
    LET A == assert(L, L.next = BACKSLASH)
        D == discard(A)
        T == take(D)
        char == D.next
    IN  IF Raising(T) THEN T
        ELSE IF char \in DOMAIN simple_escapes
             THEN insert(T, simple_escapes[char])
        ELSE IF char = Char_o THEN number(T, 8, 2)
        ELSE IF char = Char_x THEN number(T, 16, 2)
        ELSE accept(T)      \* after the warning is printed

----------------------------------------------------------------------------
(* The steps of a __next__ call *)

Init ==
    /\ input \in Inputs
    /\ self = Lexer(input)
    /\ pc = "idle"
    /\ emitted = <<>>
    /\ failed = FALSE
    /\ calls = 0

\* the call is over: it raised L.exc
Raise(L) ==
    /\ self' = L
    /\ pc' = "idle"
    /\ failed' = (failed \/ L.exc.type = "Exception")
    /\ UNCHANGED <<input, emitted>>

\* mutant: the token is returned but not recorded
Return_no_prev(L) ==
    /\ self' = L
    /\ pc' = "idle"
    /\ emitted' = Append(emitted, token(L))
    /\ UNCHANGED <<input, failed>>

\* self.prev = token = self.token(); return token
Return(L) ==
    /\ self' = [L EXCEPT !.prev = token(L)]
    /\ pc' = "idle"
    /\ emitted' = Append(emitted, token(L))
    /\ UNCHANGED <<input, failed>>

\* the builder goes on at p
Goto(L, p) ==
    IF Raising(L) THEN Raise(L)
    ELSE /\ self' = L
         /\ pc' = p
         /\ UNCHANGED <<input, emitted, failed>>

Finish(L) == IF Raising(L) THEN Raise(L) ELSE Return(L)

Cleared == [self EXCEPT !.kind = "None", !.value = <<>>, !.chars = <<>>,
                        !.exc = NoExc]

WHITE == {SPACE, TAB}

\* mutant: a tab is not taken for white space
classify_tab_unquoted(char) ==
    IF char = LF THEN "newline"
    ELSE IF char = SPACE THEN "space"
    ELSE IF char = QUOTE THEN "quoted"
    ELSE "unquoted"

\* mutant: without the branch of lines 97-98
classify_no_quoted(char) ==
    IF char = LF THEN "newline"
    ELSE IF char \in WHITE THEN "space"
    ELSE "unquoted"

classify(char) ==
    IF char = LF THEN "newline"
    ELSE IF char \in WHITE THEN "space"
    ELSE IF char = QUOTE THEN "quoted"
    ELSE "unquoted"

\* mutant: without the test of lines 91-92 the unquoted builder runs and
\* breaks at once
next_exhausted_empty_token ==
    /\ pc = "idle"
    /\ self.next = None
    /\ Return([Cleared EXCEPT !.kind = "unquoted"])
    /\ calls' = calls + 1

\* __next__ on an exhausted lexer
next_exhausted ==
    /\ pc = "idle"
    /\ self.next = None
    /\ Raise([Cleared EXCEPT !.exc = StopIteration])
    /\ calls' = IF self.exc = StopIteration THEN calls ELSE calls + 1

\* __next__ up to the call of the builder and the builder's assert
next_dispatch ==
    /\ pc = "idle"
    /\ self.next # None
    /\ LET K == [Cleared EXCEPT !.kind = classify(self.next)]
           ok == CASE K.kind = "newline" -> K.next = LF
                   [] K.kind = "space" -> K.next \in WHITE
                   [] K.kind = "quoted" -> K.next = QUOTE
                   [] OTHER -> K.next \notin {LF, SPACE, TAB, QUOTE}
       IN  Goto(assert(K, ok), K.kind)
    /\ calls' = calls + 1

\* mutant: discard instead of accept
newline_discard ==
    /\ pc = "newline"
    /\ Finish(discard(self))
    /\ UNCHANGED calls

newline ==
    /\ pc = "newline"
    /\ Finish(accept(self))
    /\ UNCHANGED calls

\* mutant: if instead of while
space_single ==
    /\ pc = "space"
    /\ Finish(accept(self))
    /\ UNCHANGED calls

space ==
    /\ pc = "space"
    /\ IF self.next \in WHITE
       THEN Goto(accept(self), "space")
       ELSE Finish(self)
    /\ UNCHANGED calls

\* the opening quote
quoted ==
    /\ pc = "quoted"
    /\ Goto(discard(self), "quoted_loop")
    /\ UNCHANGED calls

\* mutant: the message built from value instead of chars
quoted_loop_value_message ==
    /\ pc = "quoted_loop"
    /\ IF self.next = None
       THEN Raise(reject(self, "unterminated quoted text: ", self.value))
       ELSE IF self.next = QUOTE THEN Finish(discard(self))
       ELSE IF self.next = BACKSLASH
            THEN Goto(quoted_escaped(self), "quoted_loop")
       ELSE Goto(accept(self), "quoted_loop")
    /\ UNCHANGED calls

quoted_loop ==
    /\ pc = "quoted_loop"
    /\ IF self.next = None
       THEN Raise(reject(self, "unterminated quoted text: ", self.chars))
       ELSE IF self.next = QUOTE THEN Finish(discard(self))
       ELSE IF self.next = BACKSLASH
            THEN Goto(quoted_escaped(self), "quoted_loop")
       ELSE Goto(accept(self), "quoted_loop")
    /\ UNCHANGED calls

\* mutant: without the test of lines 181-182
unquoted_accepts_quote ==
    /\ pc = "unquoted"
    /\ IF self.next = None THEN Finish(self)
       ELSE IF self.next \in {LF, SPACE, TAB} THEN Finish(self)
       ELSE Goto(accept(self), "unquoted")
    /\ UNCHANGED calls

unquoted ==
    /\ pc = "unquoted"
    /\ IF self.next = None THEN Finish(self)
       ELSE IF self.next = QUOTE
            THEN Raise(reject(self, "quotes must be preceded by whitespace", <<>>))
       ELSE IF self.next \in {LF, SPACE, TAB} THEN Finish(self)
       ELSE Goto(accept(self), "unquoted")
    /\ UNCHANGED calls

Next ==
    \/ next_exhausted
    \/ next_dispatch
    \/ newline
    \/ space
    \/ quoted
    \/ quoted_loop
    \/ unquoted

Spec == Init /\ [][Next]_vars

----------------------------------------------------------------------------
(* What the consumer of the iterator sees *)

RECURSIVE JoinChars(_)
JoinChars(tokens) ==
    IF tokens = <<>> THEN <<>>
    ELSE JoinChars(SubSeq(tokens, 1, Len(tokens) - 1))
         \o tokens[Len(tokens)].chars

\* the last call is over and ...
SignalledEnd == pc = "idle" /\ self.exc = StopIteration
RaisedError == pc = "idle" /\ self.exc.type = "Exception"
ReturnedToken == pc = "idle" /\ self.exc = NoExc /\ self.kind # "None"

UnterminatedQuote == "unterminated quoted text: "
BareQuote == "quotes must be preceded by whitespace"
InvalidDigit == "is not a valid digit of base"

----------------------------------------------------------------------------
(* C1: when the consumer has called next until end-of-sequence was         *)
(* signalled and no error was raised on the way, the chars of the tokens   *)
(* returned, concatenated in order, are the whole input.                   *)
C1_RoundTrip ==
    (SignalledEnd /\ ~failed) => JoinChars(emitted) = input

(* C2: once a next call has raised a fatal lexing error, no later next     *)
(* call on the same lexer returns a token.                                 *)
C2_NoTokenAfterError ==
    [][failed => emitted' = emitted]_vars

(* C3: a next call that opened a quoted token and came to the end of the   *)
(* input before consuming the closing quote fails with the                 *)
(* unterminated-quote error; it neither returns a token nor signals        *)
(* end-of-sequence.  (A call that was stopped by an invalid digit before   *)
(* the end of the input is not the claim's case.)                          *)
C3_UnterminatedQuoteRaised ==
    (/\ pc = "idle"
     /\ self.kind = "quoted"
     /\ self.exc # NoExc
     /\ self.exc.msg # InvalidDigit)
    => (self.exc.type = "Exception" /\ self.exc.msg = UnterminatedQuote)

(* C4: in a quoted token, a backslash followed by a character c that is    *)
(* no simple escape, not o and not x raises no error, adds exactly c to    *)
(* value and backslash, c to chars, and lexing goes on with the character  *)
(* after c.                                                                *)
IsUnknownEscape(c) ==
    c \notin {BACKSLASH, QUOTE, Char_a, Char_b, Char_f, Char_n, Char_r,
              Char_t, Char_v, Char_o, Char_x}

C4_UnknownEscapeIsLiteral ==
    [][(/\ pc = "quoted_loop"
        /\ self.next = BACKSLASH
        /\ self.stream # <<>>
        /\ IsUnknownEscape(Head(self.stream)))
       => (/\ pc' = "quoted_loop"
           /\ self'.exc = NoExc
           /\ self'.value = Append(self.value, Head(self.stream))
           /\ self'.chars = self.chars \o <<BACKSLASH, Head(self.stream)>>
           /\ self'.next = IF Len(self.stream) = 1 THEN None
                           ELSE self.stream[2])]_vars

(* C5 as stated: lexing the literal  "\o101"  returns one quoted token     *)
(* whose value is the single character A (code point 65).                  *)
FirstCallOver == pc = "idle" /\ self.position > 1

C5_OctalIsA ==
    (input = Doc_o101 /\ FirstCallOver)
    => (/\ Len(emitted) = 1
        /\ emitted[1].kind = "quoted"
        /\ emitted[1].value = <<65>>)

(* C5 amended: lexing the literal  "\o101"  returns one quoted token whose *)
(* value is two characters: the character with code point 8 (octal 10,     *)
(* the two digits the escape reads) and then the character 1.              *)
C5_OctalReadsTwoDigits ==
    (input = Doc_o101 /\ FirstCallOver)
    => emitted = <<Token("quoted", <<8, Char_1>>, Doc_o101)>>

C5_Witness ==
    /\ input = Doc_o101
    /\ ReturnedToken
    /\ self.prev.value = <<8, Char_1>>

(* C6: when a next call that started on a character other than newline,   *)
(* space, tab and quote reaches a quote before any newline, space, tab or  *)
(* the end of the input, it fails with the bare-quote error and returns no *)
(* token; the value of an unquoted token never holds a quote.              *)
C6_BareQuote ==
    /\ [][(pc = "unquoted" /\ self.next = QUOTE)
          => (/\ pc' = "idle"
              /\ self'.exc = Exception(BareQuote, <<>>)
              /\ emitted' = emitted)]_vars
    /\ [](\A i \in 1..Len(emitted) :
            emitted[i].kind = "unquoted"
            => \A j \in 1..Len(emitted[i].value) : emitted[i].value[j] # QUOTE)

C6_Witness ==
    /\ RaisedError
    /\ self.kind = "unquoted"
    /\ self.exc.msg = BareQuote
    /\ self.value # <<>>

(* C7: the kind of every token returned is fixed by the character pending  *)
(* when the call began: newline for a line feed, space for a space or a    *)
(* tab, quoted for a quote, unquoted for anything else; a newline token    *)
(* consumes that one line feed, and its value and chars are both the line  *)
(* feed.                                                                   *)
KindOf(c) ==
    CASE c = LF -> "newline"
      [] c = SPACE \/ c = TAB -> "space"
      [] c = QUOTE -> "quoted"
      [] OTHER -> "unquoted"

C7_KindFromPendingChar ==
    [][/\ (pc = "idle" /\ self.next # None)
          => (/\ pc' = KindOf(self.next)
              /\ self'.kind = KindOf(self.next)
              /\ self'.position = self.position)
       /\ (pc # "idle") => self'.kind = self.kind
       /\ (emitted' # emitted)
          => (/\ pc # "idle"
              /\ emitted' = Append(emitted, self'.prev)
              /\ self'.prev.kind = self.kind)
       /\ (pc = "newline")
          => (/\ self.next = LF
              /\ emitted' = Append(emitted, Token("newline", <<LF>>, <<LF>>))
              /\ self'.position = self.position + 1)]_vars

C7_Witness ==
    /\ input = Doc_ayy
    /\ ReturnedToken
    /\ Len(emitted) = 4
    /\ [i \in 1..4 |-> emitted[i].kind]
         = <<"unquoted", "newline", "space", "quoted">>

(* C8: a next call made when no pending character remains signals          *)
(* end-of-sequence without error; once end-of-sequence has been signalled  *)
(* every later call signals it too and returns no token; an empty input    *)
(* yields no token.                                                        *)
C8_EndOfSequence ==
    /\ [][(pc = "idle" /\ self.next = None)
          => (SignalledEnd' /\ emitted' = emitted /\ failed' = failed)]_vars
    /\ [][SignalledEnd => (SignalledEnd' /\ emitted' = emitted)]_vars
    /\ [](input = <<>> => (emitted = <<>> /\ ~failed))

C8_Witness ==
    /\ SignalledEnd
    /\ self.kind = "None"
    /\ Len(emitted) >= 2

(* C9: in a quoted token, a backslash followed by one of the nine          *)
(* simple-escape characters adds the mapped character, and nothing else,   *)
(* to value and the two raw characters to chars.                           *)
SimpleEscapeOf(c) ==
    CASE c = BACKSLASH -> 92
      [] c = QUOTE -> 34
      [] c = Char_a -> 7
      [] c = Char_b -> 8
      [] c = Char_f -> 12
      [] c = Char_n -> 10
      [] c = Char_r -> 13
      [] c = Char_t -> 9
      [] c = Char_v -> 11

C9_SimpleEscape ==
    [][(/\ pc = "quoted_loop"
        /\ self.next = BACKSLASH
        /\ self.stream # <<>>
        /\ Head(self.stream) \in {BACKSLASH, QUOTE, Char_a, Char_b, Char_f,
                                  Char_n, Char_r, Char_t, Char_v})
       => (/\ pc' = "quoted_loop"
           /\ self'.exc = NoExc
           /\ self'.value = Append(self.value, SimpleEscapeOf(Head(self.stream)))
           /\ self'.chars = self.chars \o <<BACKSLASH, Head(self.stream)>>
           /\ self'.position = self.position + 2)]_vars

C9_Witness ==
    /\ pc = "quoted_loop"
    /\ self.chars = <<QUOTE, BACKSLASH, Char_n>>
    /\ self.value = <<10>>

(* C10: in a quoted token, backslash o (base 8) or backslash x (base 16)   *)
(* followed by two valid digits d1 d2 consumes exactly those two digits,   *)
(* adds to value the one character with code point base*d1+d2 (at most 63  *)
(* for octal, 255 for hex) and adds the four raw characters to chars.      *)
IsOctalDigit(c) == c \in 48..55
IsHexDigit(c) == c \in (48..57) \cup (97..102) \cup (65..70)

DigitOf(c) ==
    CASE c \in 48..57 -> c - 48
      [] c \in 97..102 -> c - 87
      [] c \in 65..70 -> c - 55

C10_NumericEscape ==
    [][(/\ pc = "quoted_loop"
        /\ self.next = BACKSLASH
        /\ Len(self.stream) >= 3
        /\ \/ /\ self.stream[1] = Char_o
              /\ IsOctalDigit(self.stream[2])
              /\ IsOctalDigit(self.stream[3])
           \/ /\ self.stream[1] = Char_x
              /\ IsHexDigit(self.stream[2])
              /\ IsHexDigit(self.stream[3]))
       => LET base == IF self.stream[1] = Char_o THEN 8 ELSE 16
              code == base * DigitOf(self.stream[2]) + DigitOf(self.stream[3])
          IN  /\ pc' = "quoted_loop"
              /\ self'.exc = NoExc
              /\ self'.value = Append(self.value, code)
              /\ code <= (IF base = 8 THEN 63 ELSE 255)
              /\ self'.chars = self.chars \o <<BACKSLASH>>
                                \o SubSeq(self.stream, 1, 3)
              /\ self'.position = self.position + 4
              /\ self'.stream = SubSeq(self.stream, 5, Len(self.stream))
              /\ self'.next = IF Len(self.stream) = 3 THEN None
                              ELSE self.stream[4]]_vars

C10_Witness ==
    /\ pc = "quoted_loop"
    /\ self.chars = <<QUOTE, BACKSLASH, Char_x, Char_F, Char_a>>
    /\ self.value = <<250>>

(* C11: in a quoted token, when either of the two characters that follow   *)
(* backslash o is not in 0-7, or either of the two that follow backslash x *)
(* is not in 0-9a-fA-F, the next call fails with the invalid-digit error   *)
(* and returns no token.                                                   *)
C11_InvalidDigit ==
    [][(/\ pc = "quoted_loop"
        /\ self.next = BACKSLASH
        /\ Len(self.stream) >= 2
        /\ self.stream[1] \in {Char_o, Char_x})
       => LET base == IF self.stream[1] = Char_o THEN 8 ELSE 16
              bad(c) == IF base = 8 THEN ~IsOctalDigit(c) ELSE ~IsHexDigit(c)
              first == bad(self.stream[2])
              second == Len(self.stream) >= 3 /\ bad(self.stream[3])
          IN  (first \/ second)
              => (/\ pc' = "idle"
                  /\ self'.exc = Exception(InvalidDigit,
                        <<IF first THEN self.stream[2] ELSE self.stream[3],
                          base>>)
                  /\ failed'
                  /\ emitted' = emitted)]_vars

C11_Witness ==
    /\ RaisedError
    /\ self.exc = Exception(InvalidDigit, <<Char_8, 8>>)
    /\ self.chars = <<QUOTE, BACKSLASH, Char_o, Char_1, Char_8>>

(* C12: the chars of every quoted token returned begin with the opening    *)
(* quote and end with the closing quote (length at least 2), and its value *)
(* holds neither delimiter: it is exactly the decoded content between      *)
(* them (empty for an empty literal).                                      *)
Undecodable == <<None>>

RECURSIVE Decoded(_)
Decoded(raw) ==
    IF raw = <<>> THEN <<>>
    ELSE IF raw[1] = QUOTE THEN Undecodable
    ELSE IF raw[1] # BACKSLASH THEN <<raw[1]>> \o Decoded(Tail(raw))
    ELSE IF Len(raw) = 1 THEN Undecodable
    ELSE IF ~IsUnknownEscape(raw[2]) /\ raw[2] \notin {Char_o, Char_x}
         THEN <<SimpleEscapeOf(raw[2])>> \o Decoded(SubSeq(raw, 3, Len(raw)))
    ELSE IF IsUnknownEscape(raw[2])
         THEN <<raw[2]>> \o Decoded(SubSeq(raw, 3, Len(raw)))
    ELSE IF Len(raw) < 4 THEN Undecodable
    ELSE IF raw[2] = Char_o /\ IsOctalDigit(raw[3]) /\ IsOctalDigit(raw[4])
         THEN <<8 * DigitOf(raw[3]) + DigitOf(raw[4])>>
              \o Decoded(SubSeq(raw, 5, Len(raw)))
    ELSE IF raw[2] = Char_x /\ IsHexDigit(raw[3]) /\ IsHexDigit(raw[4])
         THEN <<16 * DigitOf(raw[3]) + DigitOf(raw[4])>>
              \o Decoded(SubSeq(raw, 5, Len(raw)))
    ELSE Undecodable

C12_QuotedCharsAndValue ==
    \A i \in 1..Len(emitted) :
        emitted[i].kind = "quoted"
        => LET c == emitted[i].chars
           IN  /\ Len(c) >= 2
               /\ c[1] = QUOTE
               /\ c[Len(c)] = QUOTE
               /\ emitted[i].value = Decoded(SubSeq(c, 2, Len(c) - 1))

(* C13: space and unquoted tokens are maximal runs.  When a space token is *)
(* returned the pending character is no space or tab; when an unquoted     *)
(* token is returned the pending character is the end marker, a newline, a *)
(* space or a tab, and it has not been consumed.  So in an error-free      *)
(* token sequence no space token directly follows a space token, and no    *)
(* unquoted or quoted token directly follows an unquoted one.              *)
C13_MaximalRuns ==
    /\ []((ReturnedToken /\ self.kind = "space")
           => self.next \notin {SPACE, TAB})
    /\ []((ReturnedToken /\ self.kind = "unquoted")
           => self.next \in {None, LF, SPACE, TAB})
    /\ [][(pc = "unquoted" /\ emitted' # emitted)
          => (/\ self'.next = self.next
              /\ self'.stream = self.stream
              /\ self'.position = self.position)]_vars
    /\ [](~failed =>
            \A i \in 1..(Len(emitted) - 1) :
                /\ emitted[i].kind = "space"
                   => emitted[i + 1].kind # "space"
                /\ emitted[i].kind = "unquoted"
                   => emitted[i + 1].kind \notin {"unquoted", "quoted"})

C13_Witness ==
    /\ ReturnedToken
    /\ ~failed
    /\ Len(emitted) = 3
    /\ emitted[1].kind = "unquoted"
    /\ emitted[2].kind = "space" /\ Len(emitted[2].chars) = 2
    /\ emitted[3].kind = "unquoted"

(* C14: after any sequence of next calls none of which raised an error,    *)
(* the chars of the tokens returned so far, concatenated, are the prefix   *)
(* of the input consumed so far: its first position-1 characters.          *)
C14_ConsumedPrefix ==
    (pc = "idle" /\ ~failed)
    => JoinChars(emitted) = SubSeq(input, 1, self.position - 1)

(* C15: in every reachable state position is 1 plus the number of          *)
(* characters consumed, line is 1 plus the number of line feeds consumed,  *)
(* column is the number of characters consumed since the last line feed    *)
(* consumed (0 right after a line feed and at the start), and the pending  *)
(* character is the input character at offset position, or the end marker  *)
(* exactly when all the input is consumed.                                 *)
Unconsumed == IF self.next = None THEN <<>> ELSE <<self.next>> \o self.stream

Consumed == Len(input) - Len(Unconsumed)

C15_PositionLineColumn ==
    LET feeds == {i \in 1..Consumed : input[i] = 10}
        last == IF feeds = {} THEN 0
                ELSE CHOOSE i \in feeds : \A j \in feeds : j <= i
    IN  /\ Unconsumed = SubSeq(input, Consumed + 1, Len(input))
        /\ self.position = 1 + Consumed
        /\ self.line = 1 + Cardinality(feeds)
        /\ self.column = Consumed - last
        /\ self.next = IF self.position <= Len(input)
                       THEN input[self.position] ELSE None
        /\ (self.next = None) <=> (Consumed = Len(input))

C15_Witness ==
    /\ self.position = 5
    /\ self.line = 2
    /\ self.column = 2
    /\ self.next = None

(* C16: after every next call that returns a token, prev is that token; a  *)
(* call that signals end-of-sequence or raises an error leaves prev as it  *)
(* was; no later call changes a token already returned.                    *)
C16_PrevIsLastToken ==
    /\ [][/\ (emitted' # emitted)
              => (/\ pc' = "idle"
                  /\ self'.exc = NoExc
                  /\ Len(emitted') = Len(emitted) + 1
                  /\ SubSeq(emitted', 1, Len(emitted)) = emitted
                  /\ self'.prev = emitted'[Len(emitted')])
          /\ (emitted' = emitted) => self'.prev = self.prev]_vars
    /\ [](self.prev = IF emitted = <<>> THEN NoToken
                      ELSE emitted[Len(emitted)])

C16_Witness ==
    /\ RaisedError
    /\ Len(emitted) = 2
    /\ self.prev = emitted[2]
    /\ self.prev # token(self)

(* C17: the value of every token returned is at most as long as its chars; *)
(* the value of every newline, space and unquoted token is its chars.      *)
C17_ValueWithinChars ==
    \A i \in 1..Len(emitted) :
        /\ Len(emitted[i].value) <= Len(emitted[i].chars)
        /\ emitted[i].kind \in {"newline", "space", "unquoted"}
           => emitted[i].value = emitted[i].chars

C17_Witness ==
    /\ ReturnedToken
    /\ Len(emitted) = 3
    /\ emitted[1].kind = "newline"
    /\ emitted[2].kind = "unquoted"
    /\ emitted[3].kind = "space"

(* C18: in an error-free token sequence every quoted token is the first    *)
(* token of the input or directly follows a space or newline token: the    *)
(* quote that opens a quoted token is preceded by white space or by the    *)
(* start of the input.                                                     *)
C18_QuotedAfterWhitespace ==
    ~failed =>
        \A i \in 1..Len(emitted) :
            emitted[i].kind = "quoted"
            => (i = 1 \/ emitted[i - 1].kind \in {"space", "newline"})

(* C19: every next call that does not signal end-of-sequence consumes at   *)
(* least one character of the input, whether it returns a token (whose     *)
(* chars are then not empty) or raises an error; so a consumer that keeps  *)
(* calling next, even after errors, gets end-of-sequence after at most     *)
(* Len(input) + 1 calls.                                                   *)
CallsNotSignallingEnd ==
    calls - (IF self.exc = StopIteration THEN 1 ELSE 0)

C19_EveryCallConsumes ==
    /\ []((pc = "idle" /\ calls > 0 /\ self.exc # StopIteration)
           => (/\ self.chars # <<>>
               /\ self.chars = SubSeq(input, self.position - Len(self.chars),
                                       self.position - 1)))
    /\ [](\A i \in 1..Len(emitted) : emitted[i].chars # <<>>)
    /\ [](pc = "idle" => CallsNotSignallingEnd <= self.position - 1)
    /\ [](calls <= Len(input) + 1)
    /\ [][(pc = "idle" /\ self.position = Len(input) + 1)
          => SignalledEnd']_vars

C19_Witness ==
    /\ SignalledEnd
    /\ failed
    /\ Len(input) = 4
    /\ calls = 5

(* C20: the message of the unterminated-quote error carries exactly the    *)
(* raw text consumed for the current token so far, from the opening quote  *)
(* on and with the escape sequences verbatim, and nothing of earlier       *)
(* tokens.                                                                 *)
IsUnterminated(e) == e.type = "Exception" /\ e.msg = UnterminatedQuote

C20_UnterminatedMessage ==
    /\ [][pc = "idle" => self'.chars = <<>>]_vars
    /\ [][(pc # "idle" /\ self'.chars # self.chars)
          => (/\ self'.position > self.position
              /\ self'.chars = self.chars
                    \o SubSeq(input, self.position, self'.position - 1))]_vars
    /\ []((pc = "idle" /\ IsUnterminated(self.exc))
           => (/\ self.exc.arg # <<>>
               /\ self.exc.arg[1] = QUOTE
               /\ self.exc.arg = SubSeq(input,
                                        Len(input) - Len(self.exc.arg) + 1,
                                        Len(input))
               /\ (calls = Len(emitted) + 1)
                  => JoinChars(emitted) \o self.exc.arg = input))

C20_Witness ==
    /\ pc = "idle"
    /\ IsUnterminated(self.exc)
    /\ Len(emitted) = 1
    /\ self.exc.arg = <<QUOTE, BACKSLASH, Char_a>>

====
